---------------------------- MODULE Spec2Model ----------------------------
(***************************************************************************)
(* Model of the ALICE master-database pipeline of build_master_database.js *)
(* (buildMasterDatabase, createAggregatedStats, main).                     *)
(*                                                                         *)
(* Strings are sequences of one-character strings, so that toString,       *)
(* padStart, toLowerCase, includes, parseInt, endsWith and replace are     *)
(* computed as JavaScript computes them.  A spreadsheet cell is absent     *)
(* (the key is missing from the row object), a number or a string.         *)
(***************************************************************************)
EXTENDS Integers, Sequences, FiniteSets, TLC

(***************************************************************************)
(* Bounds of the model.                                                    *)
(***************************************************************************)
\* numeric household cells range over 0..MaxCount (besides the fixed samples)
MaxCount == 2
\* at most MaxFiles entries in the data directory
MaxFiles == 2
\* at most MaxRows rows are read over the whole run
MaxRows == 3

(***************************************************************************)
(* Cells and JavaScript values.                                            *)
(***************************************************************************)
Absent == [t |-> "absent", n |-> 0, s |-> <<>>]
Null == [t |-> "null", n |-> 0, s |-> <<>>]
Num(k) == [t |-> "num", n |-> k, s |-> <<>>]
Str(x) == [t |-> "str", n |-> 0, s |-> x]

\* JavaScript truthiness of a cell value: undefined, null, 0 and "" are falsy
Truthy(c) ==
    CASE c.t = "absent" -> FALSE
      [] c.t = "null" -> FALSE
      [] c.t = "num" -> c.n # 0
      [] OTHER -> Len(c.s) > 0

\* a || b
Or(a, b) == IF Truthy(a) THEN a ELSE b

DigitChars == <<"0", "1", "2", "3", "4", "5", "6", "7", "8", "9">>
UpperChars == <<"A", "B", "C", "D", "E", "F", "G", "H", "I", "J", "K", "L", "M",
                "N", "O", "P", "Q", "R", "S", "T", "U", "V", "W", "X", "Y", "Z">>
LowerChars == <<"a", "b", "c", "d", "e", "f", "g", "h", "i", "j", "k", "l", "m",
                "n", "o", "p", "q", "r", "s", "t", "u", "v", "w", "x", "y", "z">>

IsDigit(c) == \E i \in 1..10 : DigitChars[i] = c
DigitVal(c) == (CHOOSE i \in 1..10 : DigitChars[i] = c) - 1

RECURSIVE NatToStr(_)
NatToStr(k) ==
    IF k < 10 THEN <<DigitChars[k + 1]>>
    ELSE NatToStr(k \div 10) \o <<DigitChars[(k % 10) + 1]>>

\* Number.prototype.toString of an integer
IntToStr(k) == IF k < 0 THEN <<"-">> \o NatToStr(-k) ELSE NatToStr(k)

\* value.toString() of a truthy cell
CellToString(c) == IF c.t = "num" THEN IntToStr(c.n) ELSE c.s

\* String.prototype.padStart(len, fill) with a one-character fill
PadStart(x, len, fill) ==
    IF Len(x) >= len THEN x
    ELSE [i \in 1..(len - Len(x)) |-> fill] \o x

LowerChar(c) ==
    IF \E i \in 1..26 : UpperChars[i] = c
    THEN LowerChars[CHOOSE i \in 1..26 : UpperChars[i] = c]
    ELSE c

\* String.prototype.toLowerCase
ToLowerCase(x) == [i \in 1..Len(x) |-> LowerChar(x[i])]

\* String.prototype.includes
Includes(x, sub) ==
    \E i \in 1..(Len(x) - Len(sub) + 1) : SubSeq(x, i, i + Len(sub) - 1) = sub

RECURSIVE TrimStart(_)
TrimStart(x) ==
    IF x # <<>> /\ Head(x) = " " THEN TrimStart(Tail(x)) ELSE x

RECURSIVE DigitPrefix(_)
DigitPrefix(x) ==
    IF x # <<>> /\ IsDigit(Head(x)) THEN <<Head(x)>> \o DigitPrefix(Tail(x))
    ELSE <<>>

RECURSIVE DigitsValue(_)
DigitsValue(d) ==
    IF d = <<>> THEN 0
    ELSE 10 * DigitsValue(SubSeq(d, 1, Len(d) - 1)) + DigitVal(d[Len(d)])

NaN == [nan |-> TRUE, v |-> 0]

\* parseInt of a string: leading blanks, a sign, then the longest digit prefix
ParseIntStr(x) ==
    LET t == TrimStart(x)
        signed == t # <<>> /\ Head(t) \in {"+", "-"}
        body == IF signed THEN Tail(t) ELSE t
        d == DigitPrefix(body)
    IN  IF d = <<>> THEN NaN
        ELSE [nan |-> FALSE,
              v |-> IF signed /\ Head(t) = "-" THEN -DigitsValue(d)
                    ELSE DigitsValue(d)]

\* parseInt(cell): the argument is first converted to a string
\* (undefined becomes "undefined", which has no digit prefix)
ParseInt(c) ==
    CASE c.t = "num" -> ParseIntStr(IntToStr(c.n))
      [] c.t = "str" -> ParseIntStr(c.s)
      [] OTHER -> NaN

\* parseInt(cell) || 0
OrZero(p) == IF p.nan \/ p.v = 0 THEN 0 ELSE p.v

\* parseInt(cell) || null
OrNull(p) ==
    IF p.nan \/ p.v = 0 THEN [null |-> TRUE, v |-> 0]
    ELSE [null |-> FALSE, v |-> p.v]


(***************************************************************************)
(* Rates: ((num / den) * 100).toFixed(1).                                  *)
(* A rate is the number 0 (the initial value of the field) or the string   *)
(* toFixed returns; the string is kept as its value in tenths, or as one   *)
(* of the non-finite spellings "NaN", "Infinity", "-Infinity".             *)
(***************************************************************************)
RateZero == [str |-> FALSE, special |-> "finite", tenths |-> 0]
RateStr(k) == [str |-> TRUE, special |-> "finite", tenths |-> k]
RateSpecial(x) == [str |-> TRUE, special |-> x, tenths |-> 0]

Abs(k) == IF k < 0 THEN -k ELSE k
Sign(k) == IF k < 0 THEN -1 ELSE 1

\* toFixed(1) of a finite quotient num/den*100, in tenths.  toFixed rounds
\* the magnitude to the nearest tenth; when the exact quotient lies halfway
\* between two tenths the double-precision result of the division decides,
\* so both neighbours are possible outcomes.
ToFixedTenths(num, den) ==
    LET a == 2000 * Abs(num) + Abs(den)
        b == 2 * Abs(den)
        q == a \div b
        sg == Sign(num) * Sign(den)
    IN  IF a % b = 0 THEN {sg * (q - 1), sg * q} ELSE {sg * q}

\* ((num / den) * 100).toFixed(1): the possible results
ToFixed1(num, den) ==
    IF den = 0
    THEN IF num = 0 THEN {RateSpecial("NaN")}
         ELSE IF num > 0 THEN {RateSpecial("Infinity")}
         ELSE {RateSpecial("-Infinity")}
    ELSE {RateStr(k) : k \in ToFixedTenths(num, den)}

\* if (record.totalHouseholds > 0): a variant of the guard that lets 0 through
RatesGuardGe(record) == record.totalHouseholds >= 0

\* if (record.totalHouseholds > 0)
RatesGuard(record) == record.totalHouseholds > 0

\* the aliceRate numerator taken from the poverty count
AliceNumeratorPoverty(record) == record.povertyHouseholds

\* numerator of aliceRate
AliceNumerator(record) == record.aliceHouseholds

\* the combinedRate numerator without the ALICE count
CombinedNumeratorPoverty(record) == record.povertyHouseholds

\* numerator of combinedRate
CombinedNumerator(record) == record.povertyHouseholds + record.aliceHouseholds

\* "Calculate rates": the records the block can leave behind
CalculateRates(record) ==
    IF RatesGuard(record)
    THEN {[record EXCEPT !.povertyRate = pr, !.aliceRate = ar, !.combinedRate = cr] :
            pr \in ToFixed1(record.povertyHouseholds, record.totalHouseholds),
            ar \in ToFixed1(AliceNumerator(record), record.totalHouseholds),
            cr \in ToFixed1(CombinedNumerator(record), record.totalHouseholds)}
    ELSE {record}

(***************************************************************************)
(* Rows.  A row is the object sheet_to_json yields for one sheet line.     *)
(***************************************************************************)
\* if (row['GEO id2'])
HasGeoId(row) == Truthy(row.id2)

\* row['GEO id2'].toString().padStart(5, '0')
CountyGeoID(row) == PadStart(CellToString(row.id2), 5, "0")

\* the record literal of the County branch, before the rates are filled in
CountyRecordLiteral(row) ==
    [geoID |-> CountyGeoID(row),
     geoLevel |-> "county",
     geoDisplayLabel |-> Or(row.label, row.county),
     state |-> row.state,
     stateAbbr |-> row.stateAbbr,
     county |-> row.county,
     year |-> row.year,
     totalHouseholds |-> OrZero(ParseInt(row.households)),
     povertyHouseholds |-> OrZero(ParseInt(row.poverty)),
     aliceHouseholds |-> OrZero(ParseInt(row.alice)),
     aboveAliceHouseholds |-> OrZero(ParseInt(row.aboveAlice)),
     povertyRate |-> RateZero,
     aliceRate |-> RateZero,
     combinedRate |-> RateZero,
     povertyHH_Black |-> OrNull(ParseInt(row.povBlack)),
     povertyHH_Hispanic |-> OrNull(ParseInt(row.povHispanic)),
     povertyHH_White |-> OrNull(ParseInt(row.povWhite)),
     aliceHH_Black |-> OrNull(ParseInt(row.aliceBlack)),
     aliceHH_Hispanic |-> OrNull(ParseInt(row.aliceHispanic)),
     aliceHH_White |-> OrNull(ParseInt(row.aliceWhite)),
     dataSource |-> "County Sheet"]

\* the records a County row with an identifier can be emitted as
CountyRecords(row) == CalculateRates(CountyRecordLiteral(row))

C_city == <<"c", "i", "t", "y">>
C_town == <<"t", "o", "w", "n">>
C_cdp == <<"c", "d", "p">>
C_tract == <<"t", "r", "a", "c", "t">>

\* the Type chain with town tested before city
TypeLevelTownFirst(type) ==
    LET low == ToLowerCase(type)
    IN  IF Includes(low, C_town) THEN "town"
        ELSE IF Includes(low, C_city) THEN "city"
        ELSE IF Includes(low, C_cdp) THEN "cdp"
        ELSE IF Includes(low, C_tract) THEN "tract"
        ELSE "subcounty"

\* the if / else-if chain over row['Type'].toLowerCase(), for a string Type
TypeLevel(type) ==
    LET low == ToLowerCase(type)
    IN  IF Includes(low, C_city) THEN "city"
        ELSE IF Includes(low, C_town) THEN "town"
        ELSE IF Includes(low, C_cdp) THEN "cdp"
        ELSE IF Includes(low, C_tract) THEN "tract"
        ELSE "subcounty"

\* row['Type'].toLowerCase() raises a TypeError when the truthy Type value
\* is no string
SubcountyThrows(row) == Truthy(row.type) /\ row.type.t # "str"

\* the length test with 10 in place of 11
TractByLengthTen(row, geoID) == ~Truthy(row.type) /\ Len(geoID) = 10

\* if (!row['Type'] && geoID.length === 11)
TractByLength(row, geoID) == ~Truthy(row.type) /\ Len(geoID) = 11

\* the identifier padded to five characters as on County sheets
SubcountyGeoIDPadded(row) == PadStart(CellToString(row.id2), 5, "0")

\* const geoID = row['GEO id2'].toString()
SubcountyGeoID(row) == CellToString(row.id2)

\* a level inference that also reads a five-character identifier as a county
SubcountyGeoLevelByLength(row) ==
    IF Len(SubcountyGeoID(row)) = 5 THEN "county"
    ELSE IF TractByLength(row, SubcountyGeoID(row)) THEN "tract"
    ELSE IF Truthy(row.type) THEN TypeLevel(row.type.s) ELSE "subcounty"

\* geoLevel of a Subcounty row whose Type, when truthy, is a string
SubcountyGeoLevel(row) ==
    LET geoID == SubcountyGeoID(row)
        byType == IF Truthy(row.type) THEN TypeLevel(row.type.s) ELSE "subcounty"
    IN  IF TractByLength(row, geoID) THEN "tract" ELSE byType

\* the record literal of the Subcounty branch, before the rates are filled in
SubcountyRecordLiteral(row) ==
    [geoID |-> SubcountyGeoID(row),
     geoLevel |-> SubcountyGeoLevel(row),
     geoType |-> Or(row.type, Str(<<"s", "u", "b", "c", "o", "u", "n", "t", "y">>)),
     geoDisplayLabel |-> row.label,
     state |-> row.state,
     county |-> Or(row.county, Null),
     year |-> row.year,
     totalHouseholds |-> OrZero(ParseInt(row.households)),
     povertyHouseholds |-> OrZero(ParseInt(row.poverty)),
     aliceHouseholds |-> OrZero(ParseInt(row.alice)),
     aboveAliceHouseholds |-> OrZero(ParseInt(row.aboveAlice)),
     povertyRate |-> RateZero,
     aliceRate |-> RateZero,
     combinedRate |-> RateZero,
     dataSource |-> "Subcounty Sheet"]

\* the records a Subcounty row with an identifier can be emitted as
SubcountyRecords(row) == CalculateRates(SubcountyRecordLiteral(row))

(***************************************************************************)
(* String literals used as inputs and in the code.                         *)
(***************************************************************************)
S_Ohio == <<"O", "h", "i", "o">>
S_NewYork == <<"N", "e", "w", " ", "Y", "o", "r", "k">>
S_OH == <<"O", "H">>
S_NY == <<"N", "Y">>
S_Adams == <<"A", "d", "a", "m", "s">>
S_Allen == <<"A", "l", "l", "e", "n">>
S_Bronx == <<"B", "r", "o", "n", "x">>
S_Label == <<"A", "d", "a", "m", "s", " ", "C", "o", "u", "n", "t", "y", ",", " ", "O", "h", "i", "o">>
S_City == <<"C", "i", "t", "y">>
S_Town == <<"T", "o", "w", "n">>
S_CDP == <<"C", "D", "P">>
S_CensusDesignatedPlace == <<"C", "e", "n", "s", "u", "s", " ", "D", "e", "s", "i", "g", "n", "a", "t", "e", "d", " ", "P", "l", "a", "c", "e">>
S_CensusTract == <<"C", "e", "n", "s", "u", "s", " ", "T", "r", "a", "c", "t">>
S_TownCity == <<"T", "o", "w", "n", " ", "c", "i", "t", "y">>
S_Borough == <<"B", "o", "r", "o", "u", "g", "h">>
S_01001 == <<"0", "1", "0", "0", "1">>
S_Len10 == <<"0", "1", "0", "0", "1", "1", "2", "3", "4", "5">>
S_Len11 == <<"3", "6", "0", "6", "1", "0", "0", "0", "1", "0", "0">>
S_abc == <<"a", "b", "c">>
S_16 == <<"1", "6">>
S_7x == <<"7", "x">>
F_ohio == <<"o", "h", "i", "o", "_", "d", "a", "t", "a", ".", "x", "l", "s", "x">>
F_new_york == <<"n", "e", "w", "_", "y", "o", "r", "k", "_", "d", "a", "t", "a", ".", "x", "l", "s", "x">>
F_notes == <<"n", "o", "t", "e", "s", ".", "t", "x", "t">>
C_xlsx == <<".", "x", "l", "s", "x">>
C_data_xlsx == <<"_", "d", "a", "t", "a", ".", "x", "l", "s", "x">>
C_underscore == <<"_">>
C_space == <<" ">>

(***************************************************************************)
(* State.                                                                  *)
(*   pc, dir, excelFiles, fileIdx, sheets, masterDatabase, geoStats,       *)
(*   database, aggregated, out: one run of main().                         *)
(*   rowsRead, qualifying, readFailed: history of the input consumed.      *)
(*   run, log, pos, firstRun: the number of the run of main(), what the    *)
(*   first run read from the file system, how much of it the second run    *)
(*   has read again, and what the first run produced.                      *)
(*   rowSheet, rowIn, rowOut: one forEach callback applied to one row.     *)
(***************************************************************************)
VARIABLES pc, dir, excelFiles, fileIdx, sheets, masterDatabase, geoStats,
          database, aggregated, out, rowsRead, qualifying, readFailed,
          run, log, pos, firstRun,
          rowSheet, rowIn, rowOut

runVars == <<pc, dir, excelFiles, fileIdx, sheets, masterDatabase, geoStats,
             database, aggregated, out, rowsRead, qualifying, readFailed,
             run, log, pos, firstRun>>
rowVars == <<rowSheet, rowIn, rowOut>>
vars == <<runVars, rowVars>>

\* a row object; the columns the code never reads are left out
MkRow(id2, type, label, state, stateAbbr, county, year, hh, pov, al, above, demoBlack, demo) ==
    [id2 |-> id2, type |-> type, label |-> label, state |-> state,
     stateAbbr |-> stateAbbr, county |-> county, year |-> year,
     households |-> hh, poverty |-> pov, alice |-> al, aboveAlice |-> above,
     povBlack |-> demoBlack, povHispanic |-> demo, povWhite |-> demo,
     aliceBlack |-> demo, aliceHispanic |-> demo, aliceWhite |-> demo]

(***************************************************************************)
(* One row through one forEach callback (lines 33-78 and 86-139).          *)
(***************************************************************************)
IdCells ==
    {Absent, Num(0), Str(<<>>), Num(1001), Num(123456), Str(S_01001),
     Str(S_Len10), Str(S_Len11)}
TypeCells ==
    {Absent, Str(<<>>), Num(0), Num(5), Str(S_City), Str(S_Town), Str(S_CDP),
     Str(S_CensusDesignatedPlace), Str(S_CensusTract), Str(S_TownCity),
     Str(S_Borough)}
SmallCounts == {Num(k) : k \in 0..MaxCount}
HouseholdCells ==
    {Absent, Str(S_abc), Str(S_16), Num(3), Num(1000), Num(-5)} \cup SmallCounts
PovertyCells == {Absent, Str(S_7x), Num(150)} \cup SmallCounts
AliceCells == {Absent, Num(300)} \cup SmallCounts
AboveCells == {Absent, Num(550), Num(-1)}
DemoBlackCells == {Absent, Num(0), Num(4)}
DemoCells == {Absent, Num(4)}

CountyRowInputs ==
    {MkRow(id, Absent, Str(S_Label), Str(S_Ohio), Str(S_OH), Str(S_Adams), Num(2023),
           hh, pov, al, above, db, d) :
        id \in IdCells, hh \in HouseholdCells, pov \in PovertyCells,
        al \in AliceCells, above \in AboveCells, db \in DemoBlackCells, d \in DemoCells}
SubcountyRowInputs ==
    {MkRow(id, type, Str(S_Label), Str(S_Ohio), Absent, Str(S_Adams), Num(2023),
           hh, pov, al, above, Absent, Absent) :
        id \in IdCells, type \in TypeCells, hh \in HouseholdCells,
        pov \in PovertyCells, al \in AliceCells, above \in AboveCells}

NoRecord == [geoLevel |-> "none"]
Pending == [status |-> "pending", record |-> NoRecord]
Dropped == [status |-> "dropped", record |-> NoRecord]
Thrown == [status |-> "thrown", record |-> NoRecord]
Emitted(record) == [status |-> "emitted", record |-> record]

\* the outcomes of the County callback on one row
CountyCallback(row) ==
    IF HasGeoId(row) THEN {Emitted(r) : r \in CountyRecords(row)} ELSE {Dropped}

\* the outcomes of the Subcounty callback on one row
SubcountyCallback(row) ==
    IF ~HasGeoId(row) THEN {Dropped}
    ELSE IF SubcountyThrows(row) THEN {Thrown}
    ELSE {Emitted(r) : r \in SubcountyRecords(row)}

IdleRun ==
    /\ pc = "idle" /\ dir = <<>> /\ excelFiles = <<>> /\ fileIdx = 0
    /\ sheets = {} /\ masterDatabase = <<>>
    /\ geoStats = [totalRecords |-> 0, byGeoLevel |-> <<>>, byState |-> <<>>]
    /\ database = <<>> /\ aggregated = <<>>
    /\ out = [csv |-> <<>>, json |-> <<>>, stats |-> <<>>, agg |-> <<>>]
    /\ rowsRead = 0 /\ qualifying = 0 /\ readFailed = FALSE
    /\ run = 1 /\ log = <<>> /\ pos = 0 /\ firstRun = <<>>

InitRow ==
    /\ IdleRun
    /\ \/ rowSheet = "County" /\ rowIn \in CountyRowInputs
       \/ rowSheet = "Subcounty" /\ rowIn \in SubcountyRowInputs
    /\ rowOut = Pending

NormalizeCountyRow ==
    /\ rowSheet = "County" /\ rowOut = Pending
    /\ rowOut' \in CountyCallback(rowIn)
    /\ UNCHANGED <<runVars, rowSheet, rowIn>>

NormalizeSubcountyRow ==
    /\ rowSheet = "Subcounty" /\ rowOut = Pending
    /\ rowOut' \in SubcountyCallback(rowIn)
    /\ UNCHANGED <<runVars, rowSheet, rowIn>>

NextRow == NormalizeCountyRow \/ NormalizeSubcountyRow

SpecRow == InitRow /\ [][NextRow]_vars

(***************************************************************************)
(* Claims about one row (checked under SpecRow).                           *)
(***************************************************************************)
RowEmitted == rowOut.status = "emitted"
IsTextCell(c) == c.t = "str"
RawIdString == CellToString(rowIn.id2)

\* C2: every record emitted from a County sheet has a geoID of exactly 5
\* characters that is the raw identifier's string left-padded with "0".
C2_CountyGeoIDHasLength5 ==
    (rowSheet = "County" /\ RowEmitted) =>
        LET g == rowOut.record.geoID
            k == Len(g) - Len(RawIdString)
        IN  /\ Len(g) = 5
            /\ k >= 0
            /\ SubSeq(g, k + 1, Len(g)) = RawIdString
            /\ \A i \in 1..k : g[i] = "0"

\* C3: a Subcounty row whose Type is the string "Census Designated Place"
\* is emitted with geoLevel "cdp".
C3_CensusDesignatedPlaceIsCdp ==
    (rowSheet = "Subcounty" /\ RowEmitted
        /\ rowIn.type = Str(S_CensusDesignatedPlace)) =>
        rowOut.record.geoLevel = "cdp"

\* the level the Type text alone prescribes: first match over the
\* lower-cased text in the order city, town, cdp, tract, else subcounty
TypeTextHas(c, sub) == IsTextCell(c) /\ Includes(ToLowerCase(c.s), sub)
LevelByTypeAlone(c, level) ==
    /\ TypeTextHas(c, C_city) => level = "city"
    /\ (~TypeTextHas(c, C_city) /\ TypeTextHas(c, C_town)) => level = "town"
    /\ (~TypeTextHas(c, C_city) /\ ~TypeTextHas(c, C_town)
            /\ TypeTextHas(c, C_cdp)) => level = "cdp"
    /\ (~TypeTextHas(c, C_city) /\ ~TypeTextHas(c, C_town)
            /\ ~TypeTextHas(c, C_cdp) /\ TypeTextHas(c, C_tract)) => level = "tract"
    /\ (~TypeTextHas(c, C_city) /\ ~TypeTextHas(c, C_town)
            /\ ~TypeTextHas(c, C_cdp) /\ ~TypeTextHas(c, C_tract)) => level = "subcounty"

\* C4 as claimed: for a Subcounty row whose Type field is present (the row
\* has the key), geoLevel is decided by the Type field alone, also when the
\* identifier has 11 characters.
C4_PresentTypeDecides ==
    (rowSheet = "Subcounty" /\ RowEmitted /\ rowIn.type.t # "absent") =>
        LevelByTypeAlone(rowIn.type, rowOut.record.geoLevel)

\* C4 as amended: for a Subcounty row whose Type field is a non-empty
\* string, geoLevel is decided by the Type field alone (first match over the
\* lower-cased text in the order city, town, cdp, tract, else subcounty),
\* also when the identifier has 11 characters.
C4_NonEmptyTextTypeDecides ==
    (rowSheet = "Subcounty" /\ RowEmitted /\ IsTextCell(rowIn.type)
        /\ Len(rowIn.type.s) > 0) =>
        LevelByTypeAlone(rowIn.type, rowOut.record.geoLevel)

C4_Witness ==
    /\ rowSheet = "Subcounty" /\ RowEmitted
    /\ rowIn.type = Str(S_TownCity)
    /\ Len(RawIdString) = 11
    /\ rowOut.record.geoLevel = "city"

\* C5: for a Subcounty row with no Type field, geoLevel is "tract" exactly
\* when the identifier's string has length 11, and "subcounty" otherwise.
C5_NoTypeTractIffLength11 ==
    (rowSheet = "Subcounty" /\ RowEmitted /\ rowIn.type.t = "absent") =>
        /\ (Len(RawIdString) = 11) => rowOut.record.geoLevel = "tract"
        /\ (Len(RawIdString) # 11) => rowOut.record.geoLevel = "subcounty"

C5_Witness ==
    /\ rowSheet = "Subcounty" /\ RowEmitted /\ rowIn.type.t = "absent"
    /\ rowIn.id2 = Str(S_Len11)
    /\ rowOut.record.geoLevel = "tract"

\* rate is num/den*100 rounded to one decimal place: a finite value whose
\* distance from the exact quotient is at most half a tenth
IsRoundedPercent(rate, num, den) ==
    /\ rate.special = "finite"
    /\ 2 * Abs(rate.tenths * den - 1000 * num) <= den

\* C6: every emitted record with totalHouseholds > 0 has povertyRate,
\* aliceRate and combinedRate equal to 100*poverty/total, 100*alice/total
\* and 100*(poverty+alice)/total rounded to one decimal place; the counts
\* 1000, 150, 300 give 15.0, 30.0 and 45.0.
C6_RatesAreRoundedPercentages ==
    (RowEmitted /\ rowOut.record.totalHouseholds > 0) =>
        LET r == rowOut.record
        IN  /\ IsRoundedPercent(r.povertyRate, r.povertyHouseholds, r.totalHouseholds)
            /\ IsRoundedPercent(r.aliceRate, r.aliceHouseholds, r.totalHouseholds)
            /\ IsRoundedPercent(r.combinedRate,
                                r.povertyHouseholds + r.aliceHouseholds,
                                r.totalHouseholds)
            /\ (r.totalHouseholds = 1000 /\ r.povertyHouseholds = 150
                    /\ r.aliceHouseholds = 300) =>
                (r.povertyRate.tenths = 150 /\ r.aliceRate.tenths = 300
                    /\ r.combinedRate.tenths = 450)

C6_Witness ==
    /\ RowEmitted
    /\ rowIn.households = Num(1000) /\ rowIn.poverty = Num(150)
    /\ rowIn.alice = Num(300)
    /\ rowOut.record.povertyRate = RateStr(150)
    /\ rowOut.record.aliceRate = RateStr(300)
    /\ rowOut.record.combinedRate = RateStr(450)

\* C7: every emitted record whose totalHouseholds is 0 (also when the
\* Households cell is absent or unparseable) has the three rates equal to
\* 0, and no emitted record carries a NaN or infinite rate.
C7_ZeroHouseholdsZeroRates ==
    RowEmitted =>
        LET r == rowOut.record
        IN  /\ r.totalHouseholds = 0 =>
                (r.povertyRate = RateZero /\ r.aliceRate = RateZero
                    /\ r.combinedRate = RateZero)
            /\ r.povertyRate.special = "finite"
            /\ r.aliceRate.special = "finite"
            /\ r.combinedRate.special = "finite"

C7_Witness ==
    /\ RowEmitted
    /\ rowIn.households = Str(S_abc)
    /\ rowOut.record.totalHouseholds = 0
    /\ rowOut.record.povertyHouseholds = 150
    /\ rowOut.record.combinedRate = RateZero

\* C9: in every emitted record the four household counts are non-negative
\* integers whatever the raw cells hold, and a cell that is absent or has
\* no numeric prefix yields 0.
C9_CountsNonNegative ==
    RowEmitted =>
        LET r == rowOut.record
        IN  /\ r.totalHouseholds \in Nat /\ r.povertyHouseholds \in Nat
            /\ r.aliceHouseholds \in Nat /\ r.aboveAliceHouseholds \in Nat
            /\ rowIn.households \in {Absent, Str(S_abc)} => r.totalHouseholds = 0

(***************************************************************************)
(* buildMasterDatabase: the directory, the file loop and the saves.        *)
(***************************************************************************)
\* String.prototype.endsWith
EndsWith(x, suf) ==
    Len(x) >= Len(suf) /\ SubSeq(x, Len(x) - Len(suf) + 1, Len(x)) = suf

\* String.prototype.replace with a string pattern: the first occurrence only
ReplaceFirst(x, pat, rep) ==
    IF Includes(x, pat)
    THEN LET occ == {i \in 1..(Len(x) - Len(pat) + 1) :
                        SubSeq(x, i, i + Len(pat) - 1) = pat}
             i == CHOOSE j \in occ : \A k \in occ : j <= k
         IN  SubSeq(x, 1, i - 1) \o rep \o SubSeq(x, i + Len(pat), Len(x))
    ELSE x

\* files.filter(f => f.endsWith('.xlsx'))
ExcelFilesOf(files) == SelectSeq(files, LAMBDA f : EndsWith(f, C_xlsx))

\* file.replace('_data.xlsx', '').replace('_', ' ')
StateNameOf(file) ==
    ReplaceFirst(ReplaceFirst(file, C_data_xlsx, <<>>), C_underscore, C_space)

\* (m[k] || 0) + 1 stored under key k
MapInc(m, k) ==
    [x \in DOMAIN m \cup {k} |->
        IF x = k THEN (IF k \in DOMAIN m THEN m[k] ELSE 0) + 1 ELSE m[x]]

\* m[k] = v
MapPut(m, k, v) == [x \in DOMAIN m \cup {k} |-> IF x = k THEN v ELSE m[x]]

\* masterDatabase.filter(r => r.state === stateName).length
CountForState(db, stateName) ==
    Cardinality({i \in 1..Len(db) : db[i].state = Str(stateName)})

\* the last statement of one loop iteration (line 142)
StatsAfterFile(stats, db, file) ==
    [stats EXCEPT !.byState =
        MapPut(stats.byState, StateNameOf(file), CountForState(db, StateNameOf(file)))]

\* masterDatabase.push(record); geoStats.totalRecords++; byGeoLevel[level]++
StatsAfterPush(stats, record) ==
    [stats EXCEPT !.totalRecords = stats.totalRecords + 1,
                  !.byGeoLevel = MapInc(stats.byGeoLevel, record.geoLevel)]

CsvHeader ==
    {"geoID", "geoLevel", "geoType", "geoDisplayLabel", "state", "stateAbbr",
     "county", "year", "totalHouseholds", "povertyHouseholds", "aliceHouseholds",
     "aboveAliceHouseholds", "povertyRate", "aliceRate", "combinedRate", "dataSource"}

\* one line of the CSV: a column is empty when the record has no such field
CsvLine(record) ==
    [h \in CsvHeader |-> IF h \in DOMAIN record THEN <<record[h]>> ELSE <<>>]

\* csvWriter.writeRecords(masterDatabase)
CsvOf(db) == [i \in 1..Len(db) |-> CsvLine(db[i])]

(***************************************************************************)
(* The inputs of a run: the directory listing and the rows of the sheets.  *)
(***************************************************************************)
FileNames == {F_ohio, F_new_york, F_notes}

RECURSIVE SeqsUpTo(_, _)
SeqsUpTo(S, k) ==
    IF k = 0 THEN {<<>>}
    ELSE LET shorter == SeqsUpTo(S, k - 1)
         IN  shorter \cup {Append(q, x) : q \in shorter, x \in S}

NoDuplicates(q) == \A i, j \in 1..Len(q) : i # j => q[i] # q[j]

\* the listings fs.readdir can return: distinct names, at most MaxFiles
Directories == {q \in SeqsUpTo(FileNames, MaxFiles) : NoDuplicates(q)}

RunCountyRows ==
    {MkRow(Num(1001), Absent, Str(S_Label), Str(S_Ohio), Str(S_OH), Str(S_Adams),
           Num(2023), Num(1000), Num(150), Num(300), Num(550), Absent, Absent),
     MkRow(Num(36005), Absent, Absent, Str(S_NewYork), Str(S_NY), Str(S_Bronx),
           Num(2023), Num(2), Num(1), Num(1), Num(0), Num(4), Absent),
     MkRow(Num(39003), Absent, Absent, Str(S_Ohio), Str(S_OH), Str(S_Allen),
           Num(2023), Num(0), Num(0), Num(0), Num(0), Absent, Absent),
     MkRow(Absent, Absent, Absent, Str(S_Ohio), Str(S_OH), Str(S_Adams),
           Num(2023), Num(7), Num(1), Num(1), Num(5), Absent, Absent)}

RunSubcountyRows ==
    {MkRow(Str(S_Len11), Absent, Str(S_Label), Str(S_Ohio), Absent, Str(S_Adams),
           Num(2023), Num(2), Num(1), Num(0), Num(1), Absent, Absent),
     MkRow(Str(S_Len10), Str(S_City), Str(S_Label), Str(S_NewYork), Absent, Absent,
           Num(2023), Num(1), Num(0), Num(1), Num(0), Absent, Absent),
     MkRow(Absent, Str(S_Town), Str(S_Label), Str(S_Ohio), Absent, Absent,
           Num(2023), Num(1), Num(0), Num(0), Num(1), Absent, Absent),
     MkRow(Str(S_Len10), Num(5), Str(S_Label), Str(S_Ohio), Absent, Absent,
           Num(2023), Num(1), Num(0), Num(0), Num(1), Absent, Absent)}

\* the row carries a non-empty GEO id2 cell
HasNonEmptyId(row) ==
    row.id2.t = "num" \/ (row.id2.t = "str" /\ Len(row.id2.s) > 0)

(***************************************************************************)
(* createAggregatedStats.                                                  *)
(***************************************************************************)
\* slice(0, 10) and slice(-10)
TopCount == 10

\* the rollup test without the level check
CountsInRollupAny(record) == TRUE

\* if (record.geoLevel === 'county')
CountsInRollup(record) == record.geoLevel = "county"

\* a total that is assigned where it is meant to be added to
NationalSumLastWins(db, f) ==
    IF SelectSeq(db, CountsInRollup) = <<>> THEN 0
    ELSE SelectSeq(db, CountsInRollup)[Len(SelectSeq(db, CountsInRollup))][f]

\* aggregated.national[f] += record[f] over the records of the forEach
RECURSIVE NationalSum(_, _)
NationalSum(db, f) ==
    IF db = <<>> THEN 0
    ELSE (IF CountsInRollup(Head(db)) THEN Head(db)[f] ELSE 0)
            + NationalSum(Tail(db), f)

\* a variant that lists each county name once
PushCountyUnique(counties, county) ==
    IF \E i \in DOMAIN counties : counties[i] = county THEN counties
    ELSE Append(counties, county)

\* aggregated.byState[record.state].counties.push(record.county)
PushCounty(counties, county) == Append(counties, county)

NewStateEntry ==
    [totalHouseholds |-> 0, povertyHouseholds |-> 0, aliceHouseholds |-> 0,
     counties |-> <<>>]

\* the "State totals" part of the forEach, folded over the collection
RECURSIVE ByStateFold(_, _)
ByStateFold(db, acc) ==
    IF db = <<>> THEN acc
    ELSE LET r == Head(db)
             prev == IF r.state \in DOMAIN acc THEN acc[r.state] ELSE NewStateEntry
             next == [totalHouseholds |-> prev.totalHouseholds + r.totalHouseholds,
                      povertyHouseholds |-> prev.povertyHouseholds + r.povertyHouseholds,
                      aliceHouseholds |-> prev.aliceHouseholds + r.aliceHouseholds,
                      counties |-> PushCounty(prev.counties, r.county)]
         IN  IF CountsInRollup(r) THEN ByStateFold(Tail(db), MapPut(acc, r.state, next))
             ELSE ByStateFold(Tail(db), acc)

\* rate > 0: the number 0 is not, a toFixed string is compared by its value
RatePositive(rate) ==
    rate.special = "Infinity" \/ (rate.special = "finite" /\ rate.tenths > 0)

\* parseFloat(rate) of a finite rate, in tenths
RateValue(rate) == rate.tenths

\* r => r.geoLevel === 'county' && r.combinedRate > 0
IsRankedCounty(r) == r.geoLevel = "county" /\ RatePositive(r.combinedRate)

\* a descending sort that puts a record before the earlier records of the
\* same rate
RECURSIVE SortByRateDescTiesReversed(_)
SortByRateDescTiesReversed(q) ==
    IF q = <<>> THEN <<>>
    ELSE LET rest == SortByRateDescTiesReversed(SubSeq(q, 1, Len(q) - 1))
             x == q[Len(q)]
             k == Cardinality({i \in 1..Len(rest) :
                     RateValue(rest[i].combinedRate) > RateValue(x.combinedRate)})
         IN  SubSeq(rest, 1, k) \o <<x>> \o SubSeq(rest, k + 1, Len(rest))

\* .sort((a, b) => parseFloat(b.combinedRate) - parseFloat(a.combinedRate)):
\* descending, and stable (equal rates keep their order)
RECURSIVE SortByRateDesc(_)
SortByRateDesc(q) ==
    IF q = <<>> THEN <<>>
    ELSE LET rest == SortByRateDesc(SubSeq(q, 1, Len(q) - 1))
             x == q[Len(q)]
             k == Cardinality({i \in 1..Len(rest) :
                     RateValue(rest[i].combinedRate) >= RateValue(x.combinedRate)})
         IN  SubSeq(rest, 1, k) \o <<x>> \o SubSeq(rest, k + 1, Len(rest))

\* database.filter(...).sort(...)
SortedByRate(db) == SortByRateDesc(SelectSeq(db, IsRankedCounty))

SliceFirst(q, n) == SubSeq(q, 1, IF Len(q) < n THEN Len(q) ELSE n)
\* the first n entries taken where the last n are meant
SliceLastAsFirst(q, n) == SubSeq(q, 1, IF Len(q) < n THEN Len(q) ELSE n)
SliceLast(q, n) == SubSeq(q, IF Len(q) > n THEN Len(q) - n + 1 ELSE 1, Len(q))
\* a list left as it is where it is meant to be reversed
ReverseNot(q) == q
Reverse(q) == [i \in 1..Len(q) |-> q[Len(q) + 1 - i]]

\* the object the two map() calls build; location is kept as its two parts
ExtremeEntry(r) ==
    [location |-> <<r.county, Or(r.stateAbbr, r.state)>>,
     combinedRate |-> r.combinedRate,
     povertyRate |-> r.povertyRate,
     aliceRate |-> r.aliceRate,
     totalHouseholds |-> r.totalHouseholds]

MapEntries(q) == [i \in 1..Len(q) |-> ExtremeEntry(q[i])]

\* the county-level records of a collection, in order
CountyLevel(db) == SelectSeq(db, LAMBDA r : r.geoLevel = "county")

RECURSIVE SumTenths(_, _)
SumTenths(db, f) ==
    IF db = <<>> THEN 0
    ELSE (IF db[1][f].special = "finite" THEN db[1][f].tenths ELSE 0)
            + SumTenths(Tail(db), f)

\* a variant that averages the rates of the county records
NationalPovertyRateAveraged(db) ==
    IF CountyLevel(db) = <<>> THEN {RateSpecial("NaN")}
    ELSE {RateStr(SumTenths(CountyLevel(db), "povertyRate") \div Len(CountyLevel(db)))}

\* aggregated.national.povertyRate = ((poverty / total) * 100).toFixed(1)
NationalPovertyRate(db) ==
    ToFixed1(NationalSum(db, "povertyHouseholds"), NationalSum(db, "totalHouseholds"))

\* aggregated.national.aliceRate = ((alice / total) * 100).toFixed(1)
NationalAliceRate(db) ==
    ToFixed1(NationalSum(db, "aliceHouseholds"), NationalSum(db, "totalHouseholds"))

\* aggregated.national.combinedRate = (((poverty + alice) / total) * 100).toFixed(1)
NationalCombinedRate(db) ==
    ToFixed1(NationalSum(db, "povertyHouseholds") + NationalSum(db, "aliceHouseholds"),
             NationalSum(db, "totalHouseholds"))

\* the reports createAggregatedStats can return for a collection
AggregatedReports(db) ==
    LET tot == NationalSum(db, "totalHouseholds")
        pov == NationalSum(db, "povertyHouseholds")
        al == NationalSum(db, "aliceHouseholds")
        above == NationalSum(db, "aboveAliceHouseholds")
        sorted == SortedByRate(db)
    IN  {[national |-> [totalHouseholds |-> tot, povertyHouseholds |-> pov,
                        aliceHouseholds |-> al, aboveAliceHouseholds |-> above,
                        povertyRate |-> pr, aliceRate |-> ar, combinedRate |-> cr],
          byState |-> ByStateFold(db, <<>>),
          byCounty |-> <<>>,
          highestCombinedRate |-> MapEntries(SliceFirst(sorted, TopCount)),
          lowestCombinedRate |-> MapEntries(Reverse(SliceLast(sorted, TopCount)))] :
            pr \in NationalPovertyRate(db), ar \in NationalAliceRate(db),
            cr \in NationalCombinedRate(db)}

(***************************************************************************)
(* main(): one run.                                                        *)
(***************************************************************************)
Init ==
    /\ pc = "start"
    /\ dir \in Directories
    /\ excelFiles = <<>> /\ fileIdx = 0 /\ sheets = {}
    /\ masterDatabase = <<>>
    /\ geoStats = [totalRecords |-> 0, byGeoLevel |-> <<>>, byState |-> <<>>]
    /\ database = <<>> /\ aggregated = <<>>
    /\ out = [csv |-> <<>>, json |-> <<>>, stats |-> <<>>, agg |-> <<>>]
    /\ rowsRead = 0 /\ qualifying = 0 /\ readFailed = FALSE
    /\ run = 1 /\ log = <<>> /\ pos = 0 /\ firstRun = <<>>
    /\ rowSheet = "none" /\ rowIn = NoRecord /\ rowOut = Pending

\* what one read of the file system yielded: the outcome of readdir, of
\* readFile (ok, with the sheet names), one row of a sheet, or its end
Event(kind, ok, names, row) == [kind |-> kind, ok |-> ok, names |-> names, row |-> row]

\* the first run reads e from the file system; the second run, over the
\* same input, reads what the first run read at this point
Input(e) ==
    IF run = 1 THEN log' = Append(log, e) /\ pos' = pos
    ELSE /\ pos < Len(log) /\ log[pos + 1] = e
         /\ pos' = pos + 1 /\ log' = log

\* the position of the log at which the first run opened the file: the
\* k-th "readFile" entry for the k-th file of the first run's list, 0 when
\* the first run did not get to the file
SeekFile(file) ==
    LET files == firstRun[1].files
        opened == {i \in DOMAIN log : log[i].kind = "readFile"}
        at == {i \in opened :
                 \E k \in DOMAIN files :
                    /\ files[k] = file
                    /\ Cardinality({j \in opened : j <= i}) = k}
    IN  IF at = {} THEN 0 ELSE CHOOSE i \in at : TRUE

\* XLSX.readFile(filePath): the first run reads e from the file; the second
\* run reads what the first run read from the file of that name
InputOfFile(file, e) ==
    IF run = 1 THEN log' = Append(log, e) /\ pos' = pos
    ELSE /\ SeekFile(file) > 0 /\ log[SeekFile(file)] = e
         /\ pos' = SeekFile(file) /\ log' = log

\* a file that is appended to instead of replaced
WriteFileAppend(old, content) == Append(old, content)

\* fs.writeFile and csvWriter.writeRecords replace the file
WriteFile(old, content) == <<content>>

\* fs.readdir and the .xlsx filter; readdir rejects when there is no data
\* directory, and main's catch ends the run
ReadDir ==
    /\ pc = "start"
    /\ \/ /\ excelFiles' = ExcelFilesOf(dir)
          /\ pc' = "loop"
          /\ Input(Event("readdir", TRUE, {}, NoRecord))
       \/ /\ pc' = "failed"
          /\ UNCHANGED excelFiles
          /\ Input(Event("readdir", FALSE, {}, NoRecord))
    /\ UNCHANGED <<run, firstRun>>
    /\ UNCHANGED <<dir, fileIdx, sheets, masterDatabase, geoStats, database,
                   aggregated, out, rowsRead, qualifying, readFailed, rowVars>>

\* the head of one loop iteration: XLSX.readFile either throws, and the
\* exception leaves buildMasterDatabase for main's catch, or yields a workbook
OpenFile ==
    /\ pc = "loop" /\ fileIdx < Len(excelFiles)
    /\ fileIdx' = fileIdx + 1
    /\ \/ /\ pc' = "failed" /\ readFailed' = TRUE
          /\ UNCHANGED <<sheets, geoStats>>
          /\ InputOfFile(excelFiles[fileIdx + 1], Event("readFile", FALSE, {}, NoRecord))
       \/ /\ \E names \in SUBSET {"County", "Subcounty"} :
                /\ sheets' = names
                /\ InputOfFile(excelFiles[fileIdx + 1],
                               Event("readFile", TRUE, names, NoRecord))
                /\ IF "County" \in names
                   THEN pc' = "county" /\ UNCHANGED geoStats
                   ELSE IF "Subcounty" \in names
                   THEN pc' = "subcounty" /\ UNCHANGED geoStats
                   ELSE /\ pc' = "loop"
                        /\ geoStats' = StatsAfterFile(geoStats, masterDatabase,
                                                      excelFiles[fileIdx + 1])
          /\ UNCHANGED readFailed
    /\ UNCHANGED <<run, firstRun>>
    /\ UNCHANGED <<dir, excelFiles, masterDatabase, database, aggregated, out,
                   rowsRead, qualifying, rowVars>>

\* one call of the countyData.forEach callback
CountyRow ==
    /\ pc = "county" /\ rowsRead < MaxRows
    /\ \E row \in RunCountyRows : \E o \in CountyCallback(row) :
        /\ Input(Event("County", TRUE, {}, row))
        /\ rowsRead' = rowsRead + 1
        /\ qualifying' = qualifying + (IF HasNonEmptyId(row) THEN 1 ELSE 0)
        /\ IF o.status = "emitted"
           THEN /\ masterDatabase' = Append(masterDatabase, o.record)
                /\ geoStats' = StatsAfterPush(geoStats, o.record)
           ELSE UNCHANGED <<masterDatabase, geoStats>>
    /\ UNCHANGED <<run, firstRun>>
    /\ UNCHANGED <<pc, dir, excelFiles, fileIdx, sheets, database, aggregated,
                   out, readFailed, rowVars>>

\* countyData is exhausted: on to the Subcounty sheet or to line 142
EndCountySheet ==
    /\ pc = "county"
    /\ IF "Subcounty" \in sheets
       THEN pc' = "subcounty" /\ UNCHANGED geoStats
       ELSE /\ pc' = "loop"
            /\ geoStats' = StatsAfterFile(geoStats, masterDatabase, excelFiles[fileIdx])
    /\ Input(Event("County", FALSE, {}, NoRecord))
    /\ UNCHANGED <<run, firstRun>>
    /\ UNCHANGED <<dir, excelFiles, fileIdx, sheets, masterDatabase, database,
                   aggregated, out, rowsRead, qualifying, readFailed, rowVars>>

\* one call of the subcountyData.forEach callback; a TypeError raised in it
\* leaves forEach and buildMasterDatabase for main's catch
SubcountyRow ==
    /\ pc = "subcounty" /\ rowsRead < MaxRows
    /\ \E row \in RunSubcountyRows : \E o \in SubcountyCallback(row) :
        /\ Input(Event("Subcounty", TRUE, {}, row))
        /\ rowsRead' = rowsRead + 1
        /\ qualifying' = qualifying + (IF HasNonEmptyId(row) THEN 1 ELSE 0)
        /\ IF o.status = "emitted"
           THEN /\ masterDatabase' = Append(masterDatabase, o.record)
                /\ geoStats' = StatsAfterPush(geoStats, o.record)
                /\ UNCHANGED pc
           ELSE /\ UNCHANGED <<masterDatabase, geoStats>>
                /\ pc' = IF o.status = "thrown" THEN "failed" ELSE pc
    /\ UNCHANGED <<run, firstRun>>
    /\ UNCHANGED <<dir, excelFiles, fileIdx, sheets, database, aggregated, out,
                   readFailed, rowVars>>

\* subcountyData is exhausted: line 142 ends the iteration
EndSubcountySheet ==
    /\ pc = "subcounty"
    /\ pc' = "loop"
    /\ geoStats' = StatsAfterFile(geoStats, masterDatabase, excelFiles[fileIdx])
    /\ Input(Event("Subcounty", FALSE, {}, NoRecord))
    /\ UNCHANGED <<run, firstRun>>
    /\ UNCHANGED <<dir, excelFiles, fileIdx, sheets, masterDatabase, database,
                   aggregated, out, rowsRead, qualifying, readFailed, rowVars>>

\* a loop that is left after its first iteration
LoopExhaustedAfterFirst(idx, files) == idx >= 1 \/ files = <<>>

\* for (const file of excelFiles) has no further file
LoopExhausted(idx, files) == idx = Len(files)

\* after the loop: the CSV, the JSON and the statistics are written and the
\* collection is returned to main
SaveDatabase ==
    /\ pc = "loop" /\ LoopExhausted(fileIdx, excelFiles)
    /\ out' = [out EXCEPT !.csv = WriteFile(out.csv, CsvOf(masterDatabase)),
                          !.json = WriteFile(out.json, masterDatabase),
                          !.stats = WriteFile(out.stats, geoStats)]
    /\ database' = <<masterDatabase>>
    /\ pc' = "aggregate"
    /\ UNCHANGED <<run, log, pos, firstRun>>
    /\ UNCHANGED <<dir, excelFiles, fileIdx, sheets, masterDatabase, geoStats,
                   aggregated, rowsRead, qualifying, readFailed, rowVars>>

\* the collection after the call, had the sort worked on the collection itself
CollectionSortedInPlace(db) == SortByRateDesc(db)

\* the collection after the call: forEach and map only read the records,
\* filter returns a new array and sort orders that array
CollectionAfterStats(db) == db

\* createAggregatedStats(database), its report written and returned
CreateAggregatedStats ==
    /\ pc = "aggregate"
    /\ \E report \in AggregatedReports(database[1]) :
        /\ aggregated' = <<report>>
        /\ out' = [out EXCEPT !.agg = WriteFile(out.agg, report)]
    /\ pc' = "done"
    /\ database' = <<CollectionAfterStats(database[1])>>
    /\ masterDatabase' = CollectionAfterStats(database[1])
    /\ UNCHANGED <<run, log, pos, firstRun>>
    /\ UNCHANGED <<dir, excelFiles, fileIdx, sheets, geoStats,
                   rowsRead, qualifying, readFailed, rowVars>>

Next ==
    \/ ReadDir
    \/ OpenFile
    \/ CountyRow
    \/ EndCountySheet
    \/ SubcountyRow
    \/ EndSubcountySheet
    \/ SaveDatabase
    \/ CreateAggregatedStats

Spec == Init /\ [][Next]_vars

\* main() is started a second time, in a new process, over the files the
\* first run left: nothing but the file system survives
RunAgain ==
    /\ run = 1 /\ pc \in {"done", "failed"}
    /\ run' = 2 /\ pos' = 0
    /\ firstRun' = <<[database |-> database, aggregated |-> aggregated, out |-> out,
                       files |-> ExcelFilesOf(dir)]>>
    /\ pc' = "start"
    /\ excelFiles' = <<>> /\ fileIdx' = 0 /\ sheets' = {}
    /\ masterDatabase' = <<>>
    /\ geoStats' = [totalRecords |-> 0, byGeoLevel |-> <<>>, byState |-> <<>>]
    /\ database' = <<>> /\ aggregated' = <<>>
    /\ rowsRead' = 0 /\ qualifying' = 0 /\ readFailed' = FALSE
    /\ UNCHANGED <<dir, out, log, rowVars>>

NextTwice == Next \/ RunAgain

\* main() is started a second time over the same files, which readdir now
\* lists in another order
RunReordered ==
    /\ run = 1 /\ pc \in {"done", "failed"}
    /\ run' = 2 /\ pos' = 0
    /\ firstRun' = <<[database |-> database, aggregated |-> aggregated, out |-> out,
                       files |-> ExcelFilesOf(dir)]>>
    /\ dir' \in {q \in Directories :
                    /\ Len(q) = Len(dir)
                    /\ {q[i] : i \in DOMAIN q} = {dir[i] : i \in DOMAIN dir}
                    /\ ExcelFilesOf(q) # ExcelFilesOf(dir)}
    /\ pc' = "start"
    /\ excelFiles' = <<>> /\ fileIdx' = 0 /\ sheets' = {}
    /\ masterDatabase' = <<>>
    /\ geoStats' = [totalRecords |-> 0, byGeoLevel |-> <<>>, byState |-> <<>>]
    /\ database' = <<>> /\ aggregated' = <<>>
    /\ rowsRead' = 0 /\ qualifying' = 0 /\ readFailed' = FALSE
    /\ UNCHANGED <<out, log, rowVars>>

NextReordered == Next \/ RunReordered

SpecReordered == Init /\ [][NextReordered]_vars

SpecTwice == Init /\ [][NextTwice]_vars

(***************************************************************************)
(* Claims about a run (checked under Spec).                                *)
(***************************************************************************)
RECURSIVE SumSeq(_)
SumSeq(q) == IF q = <<>> THEN 0 ELSE Head(q) + SumSeq(Tail(q))

\* the values of field f over exactly the records whose geoLevel is county
CountyValues(db, f) ==
    LET counties == SelectSeq(db, LAMBDA r : r.geoLevel = "county")
    IN  [i \in 1..Len(counties) |-> counties[i][f]]

\* C1: the four national totals equal the sums of the fields over exactly
\* the records whose geoLevel is "county"; records of any other level never
\* contribute.
C1_NationalTotalsCountyOnly ==
    aggregated # <<>> =>
        LET db == database[1]
            national == aggregated[1].national
        IN  /\ national.totalHouseholds = SumSeq(CountyValues(db, "totalHouseholds"))
            /\ national.povertyHouseholds = SumSeq(CountyValues(db, "povertyHouseholds"))
            /\ national.aliceHouseholds = SumSeq(CountyValues(db, "aliceHouseholds"))
            /\ national.aboveAliceHouseholds
                    = SumSeq(CountyValues(db, "aboveAliceHouseholds"))

C1_Witness ==
    /\ aggregated # <<>>
    /\ \E i, j \in 1..Len(database[1]) :
        /\ database[1][i].geoLevel = "county"
        /\ database[1][i].totalHouseholds > 0
        /\ database[1][j].geoLevel # "county"
        /\ database[1][j].totalHouseholds > 0
    /\ aggregated[1].national.totalHouseholds > 0

\* C8: normalization emits exactly one record for each row that carries a
\* non-empty GEO id2 value and nothing, without raising an error, for each
\* row that lacks one: the collection holds as many records as qualifying
\* rows have been read.
C8_OneRecordPerQualifyingRow == Len(masterDatabase) = qualifying

\* C10: when a directory of several files is processed, a file that
\* cannot be opened or parsed does not end the run: the records of the
\* earlier files are kept, the remaining files are processed and the outputs
\* are written from the records of all readable files.
C10_ReadFailureConfinedToFile ==
    (readFailed /\ Len(excelFiles) > 1) =>
        /\ pc # "failed"
        /\ pc = "done" =>
            (out.json = <<masterDatabase>> /\ out.csv # <<>> /\ out.agg # <<>>)


\* C11: a run that produces zero records ends as a failure and writes none
\* of its output files.
C11_NoDataIsAFailure ==
    Len(masterDatabase) = 0 =>
        /\ pc # "done"
        /\ out.csv = <<>> /\ out.json = <<>> /\ out.stats = <<>> /\ out.agg = <<>>

\* C14: each national rate is the percentage of the summed county counts,
\* rounded to one decimal place, whenever the summed total is positive.
C14_NationalRatesFromSums ==
    aggregated # <<>> =>
        LET db == database[1]
            national == aggregated[1].national
            tot == SumSeq(CountyValues(db, "totalHouseholds"))
            pov == SumSeq(CountyValues(db, "povertyHouseholds"))
            al == SumSeq(CountyValues(db, "aliceHouseholds"))
        IN  tot > 0 =>
                /\ national.povertyRate.str /\ IsRoundedPercent(national.povertyRate, pov, tot)
                /\ national.aliceRate.str /\ IsRoundedPercent(national.aliceRate, al, tot)
                /\ national.combinedRate.str
                /\ IsRoundedPercent(national.combinedRate, pov + al, tot)

\* a collection whose per-record poverty rates average to a value other than
\* the rate of the summed counts has been aggregated
C14_Witness ==
    /\ aggregated # <<>>
    /\ LET counties == CountyLevel(database[1])
       IN  /\ Len(counties) > 1
           /\ SumSeq(CountyValues(database[1], "totalHouseholds")) > 0
           /\ \A i \in DOMAIN counties : counties[i].povertyRate.special = "finite"
           /\ 2 * Abs(SumTenths(counties, "povertyRate")
                        - Len(counties) * aggregated[1].national.povertyRate.tenths)
                > Len(counties)

\* the records of db that are county-level and of state s, in order
CountyRecordsOfState(db, s) ==
    SelectSeq(db, LAMBDA r : r.geoLevel = "county" /\ r.state = s)

\* C15: byState has exactly one key per distinct state among the county
\* records; each entry's totals are the sums over that state's county
\* records and its counties list holds their county values in collection
\* order, duplicates kept.
C15_ByStateGroupsCountyRecords ==
    aggregated # <<>> =>
        LET db == database[1]
            byState == aggregated[1].byState
        IN  /\ DOMAIN byState =
                 {db[i].state : i \in {j \in DOMAIN db : db[j].geoLevel = "county"}}
            /\ \A s \in DOMAIN byState :
                 LET rs == CountyRecordsOfState(db, s)
                 IN  /\ byState[s].totalHouseholds =
                            SumSeq([i \in DOMAIN rs |-> rs[i].totalHouseholds])
                     /\ byState[s].povertyHouseholds =
                            SumSeq([i \in DOMAIN rs |-> rs[i].povertyHouseholds])
                     /\ byState[s].aliceHouseholds =
                            SumSeq([i \in DOMAIN rs |-> rs[i].aliceHouseholds])
                     /\ byState[s].counties = [i \in DOMAIN rs |-> rs[i].county]

\* a state entry that lists the same county twice next to another state
C15_Witness ==
    /\ aggregated # <<>>
    /\ \E s, t \in DOMAIN aggregated[1].byState :
        /\ s # t
        /\ \E i, j \in DOMAIN aggregated[1].byState[s].counties :
            /\ i < j
            /\ aggregated[1].byState[s].counties[i] = aggregated[1].byState[s].counties[j]

\* C20: when the summed county totalHouseholds is 0 the three national rates
\* are the number 0, never NaN.
C20_NationalRatesZeroWithoutHouseholds ==
    (aggregated # <<>> /\ aggregated[1].national.totalHouseholds = 0) =>
        \A f \in {"povertyRate", "aliceRate", "combinedRate"} :
            /\ aggregated[1].national[f].special = "finite"
            /\ aggregated[1].national[f].tenths = 0

(***************************************************************************)
(* extract_geoid_data.js, extractAllGeographicData: one call of the        *)
(* data.forEach callback.  A row is a function from the headers of its     *)
(* non-blank cells to the cells; rowIn holds the first row of the sheet,   *)
(* whose keys the callback iterates over, and the row itself.              *)
(***************************************************************************)
H_Name == <<"N", "a", "m", "e">>
H_GeoID == <<"G", "e", "o", "I", "D">>
H_FIPS == <<"F", "I", "P", "S">>
H_County == <<"C", "o", "u", "n", "t", "y">>
C_geoid == <<"g", "e", "o", "i", "d">>
C_fips == <<"f", "i", "p", "s">>
C_county == <<"c", "o", "u", "n", "t", "y">>
C_puma == <<"p", "u", "m", "a">>
C_zip == <<"z", "i", "p">>
S_48 == <<"4", "8">>

\* the columns of a sheet, in sheet order
ExtractColumns == <<H_Name, H_GeoID, H_FIPS, H_County>>

\* Object.keys(firstRow): the headers of the first row's non-blank cells
KeysOf(firstRow) == SelectSeq(ExtractColumns, LAMBDA k : k \in DOMAIN firstRow)

\* key.toLowerCase().includes('geoid') || key.toLowerCase().includes('fips')
IsIdKey(key) ==
    Includes(ToLowerCase(key), C_geoid) \/ Includes(ToLowerCase(key), C_fips)

\* hasGeoID || hasCounty || hasTract || hasPUMA || hasZip
HasGeographicKey(keys) ==
    \E i \in DOMAIN keys :
        \/ IsIdKey(keys[i])
        \/ Includes(ToLowerCase(keys[i]), C_county)
        \/ Includes(ToLowerCase(keys[i]), C_tract)
        \/ Includes(ToLowerCase(keys[i]), C_puma)
        \/ Includes(ToLowerCase(keys[i]), C_zip)

\* the geoLevel chain on geoID.toString().length
LevelOfLength(len) ==
    CASE len = 2 -> "state"
      [] len = 5 -> "county"
      [] len = 11 -> "tract"
      [] len = 10 -> "zip"
      [] OTHER -> "unknown"

\* row[key]: undefined when the row has no such cell
CellOf(row, key) == IF key \in DOMAIN row THEN row[key] ELSE Absent

\* keys.forEach(key => ...) on the standardized record
RECURSIVE ExtractKeys(_, _, _)
ExtractKeys(keys, row, standardized) ==
    IF keys = <<>> THEN standardized
    ELSE LET key == Head(keys)
             value == CellOf(row, key)
             withId == [standardized EXCEPT !.geoID = <<value>>]
             withLevel ==
                 [withId EXCEPT !.geoLevel = <<LevelOfLength(Len(CellToString(value)))>>]
         IN  IF ~IsIdKey(key) THEN ExtractKeys(Tail(keys), row, standardized)
             ELSE IF Truthy(value) THEN ExtractKeys(Tail(keys), row, withLevel)
             ELSE ExtractKeys(Tail(keys), row, withId)

\* { state, sheet, ...row } after the keys have been gone through
Standardized(firstRow, row) ==
    ExtractKeys(KeysOf(firstRow), row, [columns |-> row, geoID |-> <<>>, geoLevel |-> <<>>])

\* the outcomes of the callback: rows are extracted only from a sheet whose
\* first row has a geographic key
ExtractCallback(firstRow, row) ==
    IF HasGeographicKey(KeysOf(firstRow)) THEN {Emitted(Standardized(firstRow, row))}
    ELSE {Dropped}

ExtractIdCells ==
    {Absent, Str(<<>>), Num(0), Num(1001), Str(S_48), Str(S_01001), Str(S_Len10),
     Str(S_Len11)}

\* a row from its four cells; a blank cell has no key
ExtractRow(name, geoid, fips, county) ==
    LET cells == [k \in {H_Name, H_GeoID, H_FIPS, H_County} |->
                    IF k = H_Name THEN name ELSE IF k = H_GeoID THEN geoid
                    ELSE IF k = H_FIPS THEN fips ELSE county]
    IN  [k \in {h \in DOMAIN cells : cells[h] # Absent} |-> cells[k]]

ExtractRows ==
    {ExtractRow(name, geoid, fips, county) :
        name \in {Absent, Str(S_Label)}, geoid \in ExtractIdCells,
        fips \in {Absent, Str(S_01001), Str(S_48)}, county \in {Absent, Str(S_Adams)}}

InitExtract ==
    /\ IdleRun
    /\ rowSheet = "Extract"
    /\ rowIn \in {[firstRow |-> f, row |-> r] : f, r \in ExtractRows}
    /\ rowOut = Pending

StandardizeRow ==
    /\ rowSheet = "Extract" /\ rowOut = Pending
    /\ rowOut' \in ExtractCallback(rowIn.firstRow, rowIn.row)
    /\ UNCHANGED <<runVars, rowSheet, rowIn>>

NextExtract == StandardizeRow

SpecExtract == InitExtract /\ [][NextExtract]_vars

\* the value is present and not the empty text
NonEmptyCell(c) == c.t \in {"num", "str"} /\ c # Str(<<>>)

\* C26: an extracted row with a non-empty value in a column whose header
\* contains "geoid" or "fips" has the geoLevel that the length of such a
\* value gives (2 state, 5 county, 11 tract, 10 zip, else unknown); a row
\* without such a value has no geoLevel.
C26_LevelByLengthOfIdValue ==
    (rowSheet = "Extract" /\ RowEmitted) =>
        LET row == rowIn.row
            ids == {k \in DOMAIN row : IsIdKey(k) /\ NonEmptyCell(row[k])}
            level == rowOut.record.geoLevel
        IN  IF ids = {} THEN level = <<>>
            ELSE /\ level # <<>>
                 /\ \E k \in ids :
                        LET len == Len(CellToString(row[k]))
                        IN  level[1] = IF len = 2 THEN "state"
                                       ELSE IF len = 5 THEN "county"
                                       ELSE IF len = 11 THEN "tract"
                                       ELSE IF len = 10 THEN "zip"
                                       ELSE "unknown"

(***************************************************************************)
(* Further claims about one row (checked under SpecRow).                   *)
(***************************************************************************)
\* C17: every record emitted from a Subcounty sheet has as geoID the string
\* form of the raw identifier, neither padded nor truncated: the text of a
\* text cell, the decimal digits (no leading zero) of a numeric cell.
C17_SubcountyGeoIDVerbatim ==
    (rowSheet = "Subcounty" /\ RowEmitted) =>
        LET g == rowOut.record.geoID
        IN  /\ IsTextCell(rowIn.id2) => g = rowIn.id2.s
            /\ (rowIn.id2.t = "num" /\ rowIn.id2.n > 0) =>
                /\ \A i \in DOMAIN g : IsDigit(g[i])
                /\ g[1] # "0"
                /\ DigitsValue(g) = rowIn.id2.n

\* a Subcounty record whose identifier is shorter than five characters
C17_Witness ==
    /\ rowSheet = "Subcounty" /\ RowEmitted
    /\ rowIn.id2 = Num(1001)
    /\ Len(rowOut.record.geoID) = 4

\* C18: every emitted record, whichever sheet produced it, has a field for
\* each of the 16 export columns.
C18_RecordHasEveryExportColumn ==
    RowEmitted => CsvHeader \subseteq DOMAIN rowOut.record

\* C19: whatever the cells of a row hold, the callback either emits one
\* record or drops the row; it never throws.
C19_NoRowFailsTheRun ==
    rowOut.status \in {"pending", "emitted", "dropped"}

(***************************************************************************)
(* createAggregatedStats on larger collections.  The collections are built *)
(* by the County and Subcounty callbacks from rows of 1000 households, so  *)
(* that a combined rate is a whole number of tenths and no rounding tie    *)
(* arises; record i carries the county name "c<i>".                        *)
(***************************************************************************)
MaxAggRecords == 21
MaxRateKinds == 4

\* the only element of a one-element set
OnlyRecord(S) == CHOOSE r \in S : TRUE

\* County row i of a collection, with a combined rate of 5 * v percent
AggCountyRow(i, v) ==
    MkRow(Num(1000 + i), Absent, Absent,
          IF i % 2 = 0 THEN Str(S_Ohio) ELSE Str(S_NewYork),
          IF i % 3 = 0 THEN Absent ELSE Str(S_OH),
          Str(<<"c">> \o NatToStr(i)), Num(2023),
          Num(1000), Num(30 * v), Num(20 * v), Num(1000 - 50 * v), Absent, Absent)

\* Subcounty row i of a collection, a city
AggSubcountyRow(i, v) ==
    MkRow(Str(S_Len10), Str(S_City), Absent, Str(S_Ohio), Absent,
          Str(<<"c">> \o NatToStr(i)), Num(2023),
          Num(1000), Num(30 * v), Num(20 * v), Num(1000 - 50 * v), Absent, Absent)

AggRecord(i, v, county) ==
    IF county THEN OnlyRecord(CountyRecords(AggCountyRow(i, v)))
    ELSE OnlyRecord(SubcountyRecords(AggSubcountyRow(i, v)))

\* the collection of the ordering example: rates 10, 50, 50 and 5 percent
ExampleRates == <<2, 10, 10, 1>>
ExampleDatabase == [i \in 1..4 |-> AggRecord(i, ExampleRates[i], TRUE)]

\* n records whose rates cycle through m positive values with step s; mix 1
\* makes every third record a Subcounty record and gives every fourth the
\* rate 0, mix 2 makes every other record a Subcounty record, mix 3 gives
\* every fifth record the rate 0
PatternDatabase(n, m, s, mix) ==
    [i \in 1..n |->
        AggRecord(i,
                  IF (mix = 1 /\ i % 4 = 0) \/ (mix = 3 /\ i % 5 = 0) THEN 0
                  ELSE 1 + ((i * s) % m),
                  ~((mix = 1 /\ i % 3 = 0) \/ (mix = 2 /\ i % 2 = 1)))]

AggDatabases ==
    {ExampleDatabase} \cup
    {PatternDatabase(n, m, s, mix) :
        n \in 0..MaxAggRecords, m \in 1..MaxRateKinds, s \in 1..MaxRateKinds,
        mix \in 0..3}

\* main() has received the collection from buildMasterDatabase and is about
\* to call createAggregatedStats
InitAgg ==
    /\ pc = "aggregate"
    /\ \E db \in AggDatabases :
        /\ masterDatabase = db
        /\ database = <<db>>
        /\ out = [csv |-> <<CsvOf(db)>>, json |-> <<db>>, stats |-> <<>>, agg |-> <<>>]
    /\ dir = <<>> /\ excelFiles = <<>> /\ fileIdx = 0 /\ sheets = {}
    /\ geoStats = [totalRecords |-> 0, byGeoLevel |-> <<>>, byState |-> <<>>]
    /\ aggregated = <<>>
    /\ rowsRead = 0 /\ qualifying = 0 /\ readFailed = FALSE
    /\ run = 1 /\ log = <<>> /\ pos = 0 /\ firstRun = <<>>
    /\ rowSheet = "none" /\ rowIn = NoRecord /\ rowOut = Pending

NextAgg == CreateAggregatedStats

SpecAgg == InitAgg /\ [][NextAgg]_vars

(***************************************************************************)
(* Claims about the extremes (checked under SpecAgg).                      *)
(***************************************************************************)
\* the positions of the county-level records with a positive combined rate
Qualifying(db) ==
    {i \in DOMAIN db : db[i].geoLevel = "county" /\ db[i].combinedRate.tenths > 0}

\* record j comes before record i in descending order of rate, the earlier
\* position first among equal rates
ComesBefore(db, j, i) ==
    \/ db[j].combinedRate.tenths > db[i].combinedRate.tenths
    \/ db[j].combinedRate.tenths = db[i].combinedRate.tenths /\ j < i

\* the position of the qualifying record that k - 1 qualifying records
\* come before
AtRank(db, k) ==
    CHOOSE i \in Qualifying(db) :
        Cardinality({j \in Qualifying(db) : ComesBefore(db, j, i)}) = k - 1

\* C12: highestCombinedRate holds the first min(10, n) of the n qualifying
\* county records in descending order of combinedRate, equal rates in
\* collection order; no other record appears in it.
C12_HighestIsStableDescendingPrefix ==
    aggregated # <<>> =>
        LET db == database[1]
            highest == aggregated[1].highestCombinedRate
            n == Cardinality(Qualifying(db))
        IN  /\ Len(highest) = IF n < 10 THEN n ELSE 10
            /\ \A k \in 1..Len(highest) : highest[k] = ExtremeEntry(db[AtRank(db, k)])
            /\ \A i \in DOMAIN db : i \notin Qualifying(db) =>
                    \A k \in 1..Len(highest) : highest[k].location[1] # db[i].county

\* the ordering example has been aggregated: the two 50s in collection
\* order, then 10, then 5
C12_Witness ==
    /\ aggregated # <<>>
    /\ database[1] = ExampleDatabase
    /\ [k \in 1..4 |-> aggregated[1].highestCombinedRate[k].location[1]]
         = <<ExampleDatabase[2].county, ExampleDatabase[3].county,
             ExampleDatabase[1].county, ExampleDatabase[4].county>>

\* C13: lowestCombinedRate holds the last min(10, n) of the descending list
\* in reversed order: ascending by combinedRate, a minimum positive rate
\* first, equal rates in the reverse of collection order.
C13_LowestIsReversedSuffix ==
    aggregated # <<>> =>
        LET db == database[1]
            lowest == aggregated[1].lowestCombinedRate
            n == Cardinality(Qualifying(db))
        IN  /\ Len(lowest) = IF n < 10 THEN n ELSE 10
            /\ \A k \in 1..Len(lowest) :
                    lowest[k] = ExtremeEntry(db[AtRank(db, n + 1 - k)])
            /\ \A k \in 1..(Len(lowest) - 1) :
                    lowest[k].combinedRate.tenths <= lowest[k + 1].combinedRate.tenths
            /\ n > 0 => \A i \in Qualifying(db) :
                    lowest[1].combinedRate.tenths <= db[i].combinedRate.tenths

\* more than ten records qualify and two neighbours of the lowest list have
\* the same rate, the later record of the collection first
C13_Witness ==
    /\ aggregated # <<>>
    /\ Cardinality(Qualifying(database[1])) > 10
    /\ \E i, j \in Qualifying(database[1]) :
        /\ i < j
        /\ database[1][i].combinedRate = database[1][j].combinedRate
        /\ \E k \in 1..9 :
            /\ aggregated[1].lowestCombinedRate[k] = ExtremeEntry(database[1][j])
            /\ aggregated[1].lowestCombinedRate[k + 1] = ExtremeEntry(database[1][i])

(***************************************************************************)
(* Claims about the order of the steps of a run (checked under Spec).      *)
(***************************************************************************)
\* the positions of the log at which a file was opened
OpenedAt == {i \in DOMAIN log : log[i].kind = "readFile"}

\* the positions of the log at which a row with an identifier was read
RowsWithIdAt ==
    {i \in DOMAIN log :
        log[i].kind \in {"County", "Subcounty"} /\ log[i].ok /\ Truthy(log[i].row.id2)}

Aggregating == pc \in {"aggregate", "done"}

\* C22: aggregation starts only when every .xlsx file of the directory has
\* been opened and every row read from them that has an identifier is in
\* the collection handed over; from then on the collection does not change,
\* and a report exists only once the run is done.
C22_AggregationAfterAllFiles ==
    /\ [](Aggregating =>
            /\ Cardinality(OpenedAt) = Len(ExcelFilesOf(dir))
            /\ Len(masterDatabase) = Cardinality(RowsWithIdAt)
            /\ database = <<masterDatabase>>)
    /\ [](aggregated # <<>> => pc = "done")
    /\ [][Aggregating => masterDatabase' = masterDatabase]_vars

\* a run over two files that both contributed records is done
C22_Witness ==
    /\ pc = "done"
    /\ Cardinality(OpenedAt) = 2
    /\ \E i, j \in RowsWithIdAt : \E k \in OpenedAt : i < k /\ k < j

\* the number of records the file processed last contributed
FileContribution ==
    LET opened == CHOOSE k \in OpenedAt : \A j \in OpenedAt : j <= k
    IN  Cardinality({i \in RowsWithIdAt : i > opened})

\* C30: after each file is processed, geoStats.byState[stateName] for that
\* file equals the number of records the file contributed.
C30_FileStatisticIsContribution ==
    (pc = "loop" /\ fileIdx >= 1) =>
        geoStats.byState[StateNameOf(excelFiles[fileIdx])] = FileContribution

(***************************************************************************)
(* Claims about two runs over the same input (checked under SpecTwice).    *)
(***************************************************************************)
RunEnded == pc \in {"done", "failed"}

\* C16: a second run of the pipeline over the same input, files in the same
\* order, returns the same record collection and aggregate report and
\* leaves the same output files as the first run.
C16_SecondRunSameOutput ==
    (run = 2 /\ RunEnded) =>
        /\ database = firstRun[1].database
        /\ aggregated = firstRun[1].aggregated
        /\ out = firstRun[1].out

\* a second run has read the whole input again and written a collection of
\* several records
C16_Witness ==
    /\ run = 2 /\ pc = "done" /\ pos = Len(log)
    /\ Len(database[1]) > 1
    /\ out.agg # <<>>

\* C24 as stated: in every emitted record with totalHouseholds > 0 the
\* stored combinedRate equals the stored povertyRate plus the stored
\* aliceRate.
C24_CombinedIsSumOfStoredRates ==
    (RowEmitted /\ rowOut.record.totalHouseholds > 0) =>
        rowOut.record.combinedRate.tenths =
            rowOut.record.povertyRate.tenths + rowOut.record.aliceRate.tenths

\* C24: in every emitted record with totalHouseholds > 0 the stored
\* combinedRate differs from the sum of the stored povertyRate and aliceRate
\* by at most one tenth.
C24_CombinedWithinOneTenthOfSum ==
    (RowEmitted /\ rowOut.record.totalHouseholds > 0) =>
        /\ rowOut.record.combinedRate.special = "finite"
        /\ rowOut.record.povertyRate.special = "finite"
        /\ rowOut.record.aliceRate.special = "finite"
        /\ Abs(rowOut.record.combinedRate.tenths
                - rowOut.record.povertyRate.tenths
                - rowOut.record.aliceRate.tenths) <= 1

\* 3 households, 1 in poverty, 1 ALICE: 33.3 + 33.3 against 66.7
C24_Witness ==
    /\ RowEmitted
    /\ rowOut.record.totalHouseholds = 3
    /\ rowOut.record.povertyHouseholds = 1 /\ rowOut.record.aliceHouseholds = 1
    /\ rowOut.record.povertyRate = RateStr(333)
    /\ rowOut.record.aliceRate = RateStr(333)
    /\ rowOut.record.combinedRate = RateStr(667)

\* C25: in a County record the demographic field povertyHH_Black is null
\* exactly when its source cell is absent and otherwise holds the cell's
\* integer, 0 included; likewise the five other demographic fields.
C25_DemographicsNullIffAbsent ==
    (rowSheet = "County" /\ RowEmitted) =>
        LET Faithful(field, cell) ==
                /\ field.null <=> cell.t = "absent"
                /\ cell.t = "num" => field.v = cell.n
        IN  /\ Faithful(rowOut.record.povertyHH_Black, rowIn.povBlack)
            /\ Faithful(rowOut.record.povertyHH_Hispanic, rowIn.povHispanic)
            /\ Faithful(rowOut.record.povertyHH_White, rowIn.povWhite)
            /\ Faithful(rowOut.record.aliceHH_Black, rowIn.aliceBlack)
            /\ Faithful(rowOut.record.aliceHH_Hispanic, rowIn.aliceHispanic)
            /\ Faithful(rowOut.record.aliceHH_White, rowIn.aliceWhite)

\* C27: an emitted record has geoLevel "county" exactly when its dataSource
\* is "County Sheet"; a Subcounty record has one of the five other levels
\* and the dataSource "Subcounty Sheet".
C27_CountyLevelIffCountySheet ==
    RowEmitted =>
        /\ rowOut.record.geoLevel = "county" <=> rowOut.record.dataSource = "County Sheet"
        /\ rowSheet = "County" => rowOut.record.dataSource = "County Sheet"
        /\ rowSheet = "Subcounty" =>
            /\ rowOut.record.geoLevel \in {"subcounty", "city", "town", "cdp", "tract"}
            /\ rowOut.record.dataSource = "Subcounty Sheet"

\* a Subcounty record whose identifier has the five characters of a county
\* code
C27_Witness ==
    /\ rowSheet = "Subcounty" /\ RowEmitted
    /\ Len(rowOut.record.geoID) = 5
    /\ rowOut.record.geoLevel # "county"

RECURSIVE SumOver(_, _)
SumOver(S, f) ==
    IF S = {} THEN 0
    ELSE LET x == CHOOSE y \in S : TRUE
         IN  f[x] + SumOver(S \ {x}, f)

\* C28: the byState totals add up to the national totals, and the byState
\* counties lists together have one entry per county-level record.
C28_StateTotalsAddUpToNational ==
    aggregated # <<>> =>
        LET byState == aggregated[1].byState
            national == aggregated[1].national
            Total == [s \in DOMAIN byState |-> byState[s].totalHouseholds]
            Poverty == [s \in DOMAIN byState |-> byState[s].povertyHouseholds]
            Alice == [s \in DOMAIN byState |-> byState[s].aliceHouseholds]
            Counties == [s \in DOMAIN byState |-> Len(byState[s].counties)]
        IN  /\ SumOver(DOMAIN byState, Total) = national.totalHouseholds
            /\ SumOver(DOMAIN byState, Poverty) = national.povertyHouseholds
            /\ SumOver(DOMAIN byState, Alice) = national.aliceHouseholds
            /\ SumOver(DOMAIN byState, Counties) = Len(CountyLevel(database[1]))

\* a report over several states, with households counted, from a
\* collection that also holds records of another level
C28_Witness ==
    /\ aggregated # <<>>
    /\ Cardinality(DOMAIN aggregated[1].byState) > 1
    /\ aggregated[1].national.povertyHouseholds > 0
    /\ Len(CountyLevel(database[1])) < Len(database[1])

\* C29: with n qualifying county records both extreme lists have length
\* min(10, n); for n <= 10 the lowest list is the highest list reversed; for
\* 10 < n < 20 they share the 20 - n middle positions of the sorted list;
\* for n >= 20 they share nothing.
C29_ExtremeListsOverlap ==
    aggregated # <<>> =>
        LET highest == aggregated[1].highestCombinedRate
            lowest == aggregated[1].lowestCombinedRate
            n == Cardinality(Qualifying(database[1]))
            len == IF n < 10 THEN n ELSE 10
            shared == {k \in 1..Len(highest) :
                          \E j \in 1..Len(lowest) : lowest[j] = highest[k]}
        IN  /\ Len(highest) = len /\ Len(lowest) = len
            /\ n <= 10 => lowest = [k \in 1..len |-> highest[len + 1 - k]]
            /\ \A k, j \in 1..len : k = n + 1 - j => highest[k] = lowest[j]
            /\ Cardinality(shared) =
                 IF n <= 10 THEN n ELSE IF n < 20 THEN 20 - n ELSE 0

\* twenty or more records qualify and the two lists of ten share nothing
C29_Witness ==
    /\ aggregated # <<>>
    /\ Cardinality(Qualifying(database[1])) >= 20
    /\ Len(aggregated[1].highestCombinedRate) = 10
    /\ Len(aggregated[1].lowestCombinedRate) = 10
    /\ \A k, j \in 1..10 :
        aggregated[1].highestCombinedRate[k] # aggregated[1].lowestCombinedRate[j]

(***************************************************************************)
(* Claims about two runs over the same files listed in different orders    *)
(* (checked under SpecReordered).                                          *)
(***************************************************************************)
\* how often record r occurs in the collection
Occurrences(db, r) == Cardinality({i \in DOMAIN db : db[i] = r})

\* the two collections hold the same records equally often
SameMultiset(a, b) ==
    /\ Len(a) = Len(b)
    /\ \A i \in DOMAIN a : Occurrences(a, a[i]) = Occurrences(b, a[i])

\* C23: a second run over the same files in another order returns the same
\* multiset of records, the same national totals and rates and the same
\* household totals per state as the first run.
C23_FileOrderDoesNotMatter ==
    (run = 2 /\ RunEnded) =>
        /\ database = <<>> <=> firstRun[1].database = <<>>
        /\ aggregated = <<>> <=> firstRun[1].aggregated = <<>>
        /\ database # <<>> => SameMultiset(database[1], firstRun[1].database[1])
        /\ aggregated # <<>> =>
            LET mine == aggregated[1]
                first == firstRun[1].aggregated[1]
            IN  /\ mine.national = first.national
                /\ DOMAIN mine.byState = DOMAIN first.byState
                /\ \A s \in DOMAIN mine.byState :
                    /\ mine.byState[s].totalHouseholds = first.byState[s].totalHouseholds
                    /\ mine.byState[s].povertyHouseholds = first.byState[s].povertyHouseholds
                    /\ mine.byState[s].aliceHouseholds = first.byState[s].aliceHouseholds

\* the second run is done and its collection has the records of the first
\* run in another order, county records with households included
C23_Witness ==
    /\ run = 2 /\ pc = "done"
    /\ excelFiles # firstRun[1].files
    /\ database[1] # firstRun[1].database[1]
    /\ aggregated[1].national.totalHouseholds > 0
    /\ Cardinality(DOMAIN aggregated[1].byState) > 1
=============================================================================
